---- MODULE Spec2Model ----
(***************************************************************************)
(* Model of the 3D physics scene: the Engine class (scene, physics world,  *)
(* registry of rigid bodies, render loop) and the scene script (floor,     *)
(* random spawn parameters, keypress handler, auto-spawn timer).           *)
(*                                                                         *)
(* Numbers that are floats in the program are fixed-point integers here:   *)
(* a value v is represented by v * U.  Math.random() returns k / RandDen   *)
(* for k in 0 .. RandDen-1, so every product and quotient the program      *)
(* computes is exact in units of 1/U.                                      *)
(***************************************************************************)
EXTENDS Integers, Sequences, FiniteSets, TLC

\* ------------------------------------------------------------------ bounds
\* Math.random() is one of RandDen equally spaced values in [0, 1)
RandDen == 8
\* at most this many meshes are ever created in one behaviour
MaxCreated == 11
\* at most this many non-floor objects are in the registry at once
MaxLive == 2
\* at most this many setInterval calls in one behaviour
MaxTimers == 2
\* randomInt is called with max and min in -IntBound .. IntBound
IntBound == 3

\* fixed-point unit: the integer n stands for the float n / U
U == 32 * RandDen * RandDen

\* color values are in units of 1 / RandDen
ColorU == RandDen

VARIABLES
  E,               \* the Engine instance
  floorIsShowing,  \* scene script: let floorIsShowing
  intervalRef,     \* scene script: let intervalRef (0 is undefined)
  activeTimers,    \* host: ids of the repeating timers not yet cleared
  timerIds,        \* host: number of timer ids handed out by setInterval
  rafPending,      \* host: number of requested animation frames not yet run
  pc,              \* position of the scene script
  tickPc,          \* position inside Engine.render
  ret,             \* value returned by the most recent create* call
  removedCount,    \* number of removals executed by the R and F handlers
  lastEvent,       \* the callback the event loop ran most recently
  rp,              \* parameters produced by generateRandomObjectParams
  ri               \* arguments and result of a randomInt call

vars == <<E, floorIsShowing, intervalRef, activeTimers, timerIds, rafPending,
          pc, tickPc, ret, removedCount, lastEvent, rp, ri>>

\* JS undefined, where the program tests a value for truthiness
undefined == 0

\* the value of a coordinate that holds no number
NotNumeric == <<>>

\* the null written into the copied array by the R and F handlers
null == [null |-> TRUE]

\* ---------------------------------------------------------------- util.js
\* randomInt(max, min): min + Math.floor(Math.random() * max), k the draw.
\* max and min are plain integers here.
randomInt(max, min, k) == min + ((k * max) \div RandDen)

\* randomFloat(max, min): min + Math.random() * max, k the draw.
\* max and min are in units of 1/U; U is a multiple of RandDen.
randomFloat(max, min, k) == min + ((k * max) \div RandDen)

\* random8BitColor(): Math.random() * 0xffffff, in units of 1/ColorU
random8BitColor(k) == k * 16777215

\* ------------------------------------------------- generateRandomObjectParams
\* d is the sequence of the ten Math.random() results, in call order
NumDraws == 10

generateRandomObjectParams(d) ==
  LET randomColor  == random8BitColor(d[1])
      randomScale  == randomFloat(1 * U, (3 * U) \div 4, d[2])
      randomRadius == (randomScale * 3) \div 4
      randomLength == randomFloat(2 * U, 1 * U, d[3])
      randomX      == randomFloat(5 * U, -5 * U, d[4])
      randomY      == randomFloat(25 * U, 20 * U, d[5])
      randomZ      == randomFloat(5 * U, -5 * U, d[6])
      randomMass   == randomFloat(5 * U + randomScale, 5 * U, d[7])
      randomQuaternion == << randomFloat(360 * U, 0, d[8]),
                             randomFloat(360 * U, 0, d[9]),
                             (d[10] * 360 * U) \div RandDen,
                             1 * U >>
  IN [ randomColor |-> randomColor, randomScale |-> randomScale,
       randomRadius |-> randomRadius, randomLength |-> randomLength,
       randomX |-> randomX, randomY |-> randomY, randomZ |-> randomZ,
       randomMass |-> randomMass, randomQuaternion |-> randomQuaternion ]

\* ------------------------------------------------------ external engines
\* scene.add(mesh) / scene.remove(mesh): the scene holds mesh references
sceneAdd(scene, id) == scene \cup {id}
sceneRemove(scene, id) == scene \ {id}

\* physicsUniverse.addRigidBody(body) / removeCollisionObject(pointer)
addRigidBody(world, eB) == world \cup {eB}
removeCollisionObject(world, eB) == world \ {eB}

\* heights (units of 1/U) a simulated dynamic body can be moved to by a step
SimHeights == {2 * U}

\* the transforms one stepSimulation call can leave a body with: a body of
\* mass 0 is static; a dynamic body registered in the world keeps its
\* transform or is moved by gravity and collisions
stepBody(world, body) ==
  IF body.mass = 0 \/ body.eB \notin world
  THEN {body}
  ELSE {body} \cup
       { [body EXCEPT !.origin = <<body.origin[1], h, body.origin[3]>>]
           : h \in SimHeights }

\* --------------------------------------------------------------- Engine
\* constructor(root)
NewEngine ==
  [ rigidBodies |-> <<>>, renderCallback |-> FALSE,
    scene |-> {}, physicsUniverse |-> {},
    graphicsReady |-> FALSE, physicsReady |-> FALSE,
    created |-> 0 ]

\* the part the three create* methods share: build the mesh, add it to the
\* scene, build the body from the transform, add it to the world, attach it
\* to the mesh and push the mesh on rigidBodies
addObject(e, geometry, position, quaternion, mass, name, color) ==
  LET id   == e.created + 1
      body == [ eB |-> id, mass |-> mass, origin |-> position,
                rotation |-> quaternion, motionState |-> TRUE ]
      mesh == [ id |-> id, name |-> name, geometry |-> geometry,
                color |-> color,
                \* position.set(this.Vector3(..)): no numeric coordinates
                position |-> NotNumeric,
                quaternion |-> <<0, 0, 0, 1 * U>>,
                userData |-> [physicsBody |-> body] ]
  IN [e EXCEPT !.created = id,
               !.scene = sceneAdd(@, id),
               !.physicsUniverse = addRigidBody(@, body.eB),
               !.rigidBodies = Append(@, mesh)]

\* the mesh a create* call has just pushed
lastPushed(e) == e.rigidBodies[Len(e.rigidBodies)].id

\* createBox: a scale given as a number (a 1-tuple here) becomes x = y = z
createBox(e, scale, position, quaternion, mass, name, color) ==
  LET s  == IF Len(scale) = 1 THEN <<scale[1], scale[1], scale[1]>> ELSE scale
      e2 == addObject(e, [shape |-> "box", dims |-> s],
                      position, quaternion, mass, name, color)
  IN [E |-> e2, ret |-> lastPushed(e2)]

\* createCapsule: no return statement
createCapsule(e, radius, length, position, quaternion, mass, name, color) ==
  LET e2 == addObject(e, [shape |-> "capsule", dims |-> <<radius, length>>],
                      position, quaternion, mass, name, color)
  IN [E |-> e2, ret |-> undefined]

\* createSphere
createSphere(e, radius, position, quaternion, mass, name, color) ==
  LET e2 == addObject(e, [shape |-> "sphere", dims |-> <<radius>>],
                      position, quaternion, mass, name, color)
  IN [E |-> e2, ret |-> lastPushed(e2)]

\* the registries a step can produce from the meshes' bodies, one by one
RECURSIVE stepMeshes(_, _)
stepMeshes(world, meshes) ==
  IF meshes = <<>> THEN {<<>>}
  ELSE { <<[Head(meshes) EXCEPT !.userData.physicsBody = b]>> \o rest :
           b \in stepBody(world, Head(meshes).userData.physicsBody),
           rest \in stepMeshes(world, Tail(meshes)) }

\* updatePhysics, first statement: physicsUniverse.stepSimulation(dt, 10).
\* The set of engine states one step can produce.
stepSimulation(e) ==
  { [e EXCEPT !.rigidBodies = m] :
      m \in stepMeshes(e.physicsUniverse, e.rigidBodies) }

\* syncOne that copies the position and leaves the quaternion
syncOne_positionOnly(rigidBody) ==
  LET Physics_Object == rigidBody.userData.physicsBody
  IN IF Physics_Object.motionState
     THEN [rigidBody EXCEPT !.position = Physics_Object.origin]
     ELSE rigidBody

\* updatePhysics, the forEach callback for one rigid body
syncOne(rigidBody) ==
  LET Physics_Object == rigidBody.userData.physicsBody
      motionState == Physics_Object.motionState
  IN IF motionState
     THEN [rigidBody EXCEPT !.position = Physics_Object.origin,
                            !.quaternion = Physics_Object.rotation]
     ELSE rigidBody

\* updatePhysics, the forEach over rigidBodies, in registry order
RECURSIVE syncFrom(_, _)
syncFrom(bodies, i) ==
  IF i > Len(bodies) THEN bodies
  ELSE syncFrom([bodies EXCEPT ![i] = syncOne(bodies[i])], i + 1)

\* the forEach that ends at the first body without a motion state
syncAll_abort(e) ==
  LET bodies == e.rigidBodies
      bad == { i \in 1..Len(bodies) :
                 ~bodies[i].userData.physicsBody.motionState }
  IN [e EXCEPT !.rigidBodies =
        [i \in 1..Len(bodies) |->
           IF \E b \in bad : b <= i THEN bodies[i] ELSE syncOne(bodies[i])]]

syncAll(e) == [e EXCEPT !.rigidBodies = syncFrom(@, 1)]

\* ---------------------------------------------------------- scene script
FloorColor == 13421772 * ColorU

\* makeFloor whose last panel is given a mass
makeFloor_heavy(e) ==
  LET q  == U \div 4
      e1 == createBox(e,  <<22*U, 7*U, 1*U>>, <<0, 2*U, 11*U>>,
                      <<q, 0, 0, U>>, 0, "floor", FloorColor).E
      e2 == createBox(e1, <<1*U, 7*U, 22*U>>, <<-11*U, 2*U, 0>>,
                      <<0, 0, q, U>>, 0, "floor", FloorColor).E
      e3 == createBox(e2, <<22*U, 7*U, 1*U>>, <<0, 2*U, -11*U>>,
                      <<-q, 0, 0, U>>, 0, "floor", FloorColor).E
      e4 == createBox(e3, <<1*U, 7*U, 22*U>>, <<11*U, 2*U, 0>>,
                      <<0, 0, -q, U>>, 0, "floor", FloorColor).E
  IN createBox(e4, <<21*U, 2*U, 21*U>>, <<0, 0, 0>>,
               <<0, 0, 0, U>>, 1 * U, "floor", FloorColor)

\* makeFloor: five static boxes tagged 'floor'
makeFloor(e) ==
  LET q  == U \div 4
      e1 == createBox(e,  <<22*U, 7*U, 1*U>>, <<0, 2*U, 11*U>>,
                      <<q, 0, 0, U>>, 0, "floor", FloorColor).E
      e2 == createBox(e1, <<1*U, 7*U, 22*U>>, <<-11*U, 2*U, 0>>,
                      <<0, 0, q, U>>, 0, "floor", FloorColor).E
      e3 == createBox(e2, <<22*U, 7*U, 1*U>>, <<0, 2*U, -11*U>>,
                      <<-q, 0, 0, U>>, 0, "floor", FloorColor).E
      e4 == createBox(e3, <<1*U, 7*U, 22*U>>, <<11*U, 2*U, 0>>,
                      <<0, 0, -q, U>>, 0, "floor", FloorColor).E
  IN createBox(e4, <<21*U, 2*U, 21*U>>, <<0, 0, 0>>,
               <<0, 0, 0, U>>, 0, "floor", FloorColor)

\* the three spawn calls of the keypress handler and generateRandomObject
spawnSphere(e, p) ==
  createSphere(e, p.randomRadius, <<p.randomX, p.randomY, p.randomZ>>,
               p.randomQuaternion, p.randomMass, "sphere", p.randomColor)

spawnBox(e, p) ==
  createBox(e, <<p.randomScale>>, <<p.randomX, p.randomY, p.randomZ>>,
            p.randomQuaternion, p.randomMass, "box", p.randomColor)

spawnCapsule(e, p) ==
  createCapsule(e, p.randomRadius \div 2, p.randomLength,
                <<p.randomX, p.randomY, p.randomZ>>,
                p.randomQuaternion, p.randomMass, "capsule", p.randomColor)

\* the switch with a default case that makes a box
randomObjectCase_default(e, p, whichFunction) ==
  CASE whichFunction = 0 -> spawnCapsule(e, p)
    [] whichFunction = 1 -> spawnSphere(e, p)
    [] OTHER -> spawnBox(e, p)

\* generateRandomObject, the switch(whichFunction): it has no default case,
\* so a selector that matches no case creates nothing
randomObjectCase(e, p, whichFunction) ==
  CASE whichFunction = 0 -> spawnCapsule(e, p)
    [] whichFunction = 1 -> spawnSphere(e, p)
    [] whichFunction = 2 -> spawnBox(e, p)
    [] OTHER -> [E |-> e, ret |-> undefined]

\* generateRandomObject without the box case
generateRandomObject_noBox(e, p, k) ==
  LET whichFunction == randomInt(3, 0, k)
  IN CASE whichFunction = 0 -> spawnCapsule(e, p)
       [] whichFunction = 1 -> spawnSphere(e, p)
       [] OTHER -> [E |-> e, ret |-> undefined]

\* generateRandomObject(rp): k is the draw of randomInt(3)
generateRandomObject(e, p, k) ==
  LET whichFunction == randomInt(3, 0, k)
  IN randomObjectCase(e, p, whichFunction)

\* the removal loop without the removeCollisionObject call
RECURSIVE removeLoop_sceneOnly(_, _, _, _, _)
removeLoop_sceneOnly(e, tmp, i, floorWanted, n) ==
  IF i > Len(e.rigidBodies) THEN [E |-> e, tmp |-> tmp, n |-> n]
  ELSE LET rigidBody == e.rigidBodies[i] IN
       IF (rigidBody.name = "floor") = floorWanted
       THEN removeLoop_sceneOnly(
              [e EXCEPT !.scene = sceneRemove(@, rigidBody.id)],
              [tmp EXCEPT ![i] = null], i + 1, floorWanted, n + 1)
       ELSE removeLoop_sceneOnly(e, tmp, i + 1, floorWanted, n)

\* the forEach of the R and F handlers over E.rigidBodies: an element that
\* matches is removed from the scene and the world and nulled in the copy
RECURSIVE removeLoop(_, _, _, _, _)
removeLoop(e, tmp, i, floorWanted, n) ==
  IF i > Len(e.rigidBodies) THEN [E |-> e, tmp |-> tmp, n |-> n]
  ELSE LET rigidBody == e.rigidBodies[i] IN
       IF (rigidBody.name = "floor") = floorWanted
       THEN removeLoop(
              [e EXCEPT !.scene = sceneRemove(@, rigidBody.id),
                        !.physicsUniverse = removeCollisionObject(@,
                                   rigidBody.userData.physicsBody.eB)],
              [tmp EXCEPT ![i] = null], i + 1, floorWanted, n + 1)
       ELSE removeLoop(e, tmp, i + 1, floorWanted, n)

\* removal that runs the loop and never assigns the filtered copy
removeMatching_noFilter(e, floorWanted) ==
  LET r == removeLoop(e, e.rigidBodies, 1, floorWanted, 0)
  IN [E |-> r.E, n |-> r.n]

\* copy, forEach, filter: E.rigidBodies = tmp.filter(r => r !== null)
removeMatching(e, floorWanted) ==
  LET tmpRigidBodies == e.rigidBodies
      r == removeLoop(e, tmpRigidBodies, 1, floorWanted, 0)
  IN [ E |-> [r.E EXCEPT !.rigidBodies =
                       SelectSeq(r.tmp, LAMBDA x : x # null)],
       n |-> r.n ]

\* the R handler with the test of the F handler
keyR_floor(e) == removeMatching(e, TRUE)

\* case "KeyR"
keyR(e) == removeMatching(e, FALSE)

\* the F handler that removes the floor and leaves the flag set
keyF_keepFlag(e, f) ==
  IF ~f
  THEN [E |-> makeFloor(e).E, floorIsShowing |-> TRUE, n |-> 0]
  ELSE LET r == removeMatching(e, TRUE)
       IN [E |-> r.E, floorIsShowing |-> TRUE, n |-> r.n]

\* case "KeyF": e the engine, f the floor flag
keyF(e, f) ==
  IF ~f
  THEN [E |-> makeFloor(e).E, floorIsShowing |-> TRUE, n |-> 0]
  ELSE LET r == removeMatching(e, TRUE)
       IN [E |-> r.E, floorIsShowing |-> FALSE, n |-> r.n]

\* ------------------------------------------------------------- the draws
\* the draw sequence in which every Math.random() call returns k / RandDen
Draws(k) == [i \in 1..NumDraws |-> k]

\* draw sequences of the key and timer events: every call draws the highest
\* value (every draw sequence is covered by ParamSpec)
EventDraws == {Draws(RandDen - 1)}

\* the draw sequences of generateRandomObjectParams taken alone: the mass
\* depends on the scale draw and the mass draw, which range freely; every
\* other parameter depends on its own draw only, and those draws range
\* together
AllDraws ==
  { [Draws(a) EXCEPT ![2] = k2, ![7] = k7] :
      a \in 0..(RandDen - 1), k2 \in 0..(RandDen - 1),
      k7 \in 0..(RandDen - 1) }

\* no parameters generated yet
NoParams == [draws |-> <<>>]

\* no randomInt call made yet
NoCall == [k |-> -1]

\* number of registry objects not tagged 'floor'
Live(e) == Len(SelectSeq(e.rigidBodies, LAMBDA m : m.name # "floor"))

\* number of registry objects tagged 'floor'
Floors(e) == Len(SelectSeq(e.rigidBodies, LAMBDA m : m.name = "floor"))

\* --------------------------------------------------------------- initial
Init ==
  /\ E = NewEngine
  /\ floorIsShowing = FALSE
  /\ intervalRef = undefined
  /\ activeTimers = {}
  /\ timerIds = 0
  /\ rafPending = 0
  /\ pc = "new"
  /\ tickPc = "idle"
  /\ ret = undefined
  /\ removedCount = 0
  /\ lastEvent = "none"
  /\ rp = NoParams
  /\ ri = NoCall

\* -------------------------------------------------------- Engine.init
\* await AmmoLib(), initGraphicsUniverse, initPhysicsUniverse, then the
\* first call of render()
EngineInit ==
  /\ pc = "new"
  /\ rp = NoParams
  /\ E' = [E EXCEPT !.graphicsReady = TRUE, !.physicsReady = TRUE]
  /\ pc' = "init"
  /\ tickPc' = "entered"
  /\ lastEvent' = "init"
  /\ UNCHANGED <<floorIsShowing, intervalRef, activeTimers, timerIds,
                 rafPending, ret, removedCount, rp, ri>>

\* ------------------------------------------------------- Engine.render
\* variant: the frame request stays pending while its callback runs
FrameCallback_keep ==
  /\ pc = "running"
  /\ tickPc = "idle"
  /\ rafPending > 0
  /\ rafPending' = rafPending
  /\ tickPc' = "entered"
  /\ lastEvent' = "frame"
  /\ UNCHANGED <<E, floorIsShowing, intervalRef, activeTimers, timerIds,
                 pc, ret, removedCount, rp, ri>>

\* the host runs the requested animation frame
FrameCallback ==
  /\ pc = "running"
  /\ tickPc = "idle"
  /\ rafPending > 0
  /\ rafPending' = rafPending - 1
  /\ tickPc' = "entered"
  /\ lastEvent' = "frame"
  /\ UNCHANGED <<E, floorIsShowing, intervalRef, activeTimers, timerIds,
                 pc, ret, removedCount, rp, ri>>

\* updatePhysics: stepSimulation(deltaTime, 10)
StepPhysics ==
  /\ tickPc = "entered"
  /\ E' \in stepSimulation(E)
  /\ tickPc' = "stepped"
  /\ UNCHANGED <<floorIsShowing, intervalRef, activeTimers, timerIds,
                 rafPending, pc, ret, removedCount, lastEvent, rp, ri>>

\* variant: the forEach also sets each body's origin from the position the
\* mesh had
SyncStep_feedback ==
  /\ tickPc = "stepped"
  /\ E' = [syncAll(E) EXCEPT !.rigidBodies =
            [i \in 1..Len(E.rigidBodies) |->
               [@[i] EXCEPT !.userData.physicsBody.origin =
                              E.rigidBodies[i].position]]]
  /\ tickPc' = "synced"
  /\ UNCHANGED <<floorIsShowing, intervalRef, activeTimers, timerIds,
                 rafPending, pc, ret, removedCount, lastEvent, rp, ri>>

\* updatePhysics: the forEach that copies transforms to the meshes
SyncStep ==
  /\ tickPc = "stepped"
  /\ E' = syncAll(E)
  /\ tickPc' = "synced"
  /\ UNCHANGED <<floorIsShowing, intervalRef, activeTimers, timerIds,
                 rafPending, pc, ret, removedCount, lastEvent, rp, ri>>

\* renderer.render(scene, camera)
RenderStep ==
  /\ tickPc = "synced"
  /\ tickPc' = "rendered"
  /\ UNCHANGED <<E, floorIsShowing, intervalRef, activeTimers, timerIds,
                 rafPending, pc, ret, removedCount, lastEvent, rp, ri>>

\* if (typeof this.renderCallback === 'function') this.renderCallback()
CallbackStep ==
  /\ tickPc = "rendered"
  /\ tickPc' = IF E.renderCallback THEN "called" ELSE "skipped"
  /\ UNCHANGED <<E, floorIsShowing, intervalRef, activeTimers, timerIds,
                 rafPending, pc, ret, removedCount, lastEvent, rp, ri>>

\* variant: the next frame is requested right after renderer.render, before
\* the callback test
Schedule_early ==
  /\ tickPc \in {"rendered", "called", "skipped"}
  /\ rafPending' = rafPending + 1
  /\ tickPc' = "idle"
  /\ pc' = IF pc = "init" THEN "inited" ELSE pc
  /\ UNCHANGED <<E, floorIsShowing, intervalRef, activeTimers, timerIds,
                 ret, removedCount, lastEvent, rp, ri>>

\* requestAnimationFrame(this.render.bind(this)); render returns, and the
\* first render returns into init
Schedule ==
  /\ tickPc \in {"called", "skipped"}
  /\ rafPending' = rafPending + 1
  /\ tickPc' = "idle"
  /\ pc' = IF pc = "init" THEN "inited" ELSE pc
  /\ UNCHANGED <<E, floorIsShowing, intervalRef, activeTimers, timerIds,
                 ret, removedCount, lastEvent, rp, ri>>

\* ------------------------------------------------ scene script, top level
\* variant: the script sets the flag and the callback and builds no floor
SceneSetup_noFloor ==
  /\ pc = "inited"
  /\ tickPc = "idle"
  /\ E' = [E EXCEPT !.renderCallback = TRUE]
  /\ ret' = ret
  /\ floorIsShowing' = TRUE
  /\ pc' = "running"
  /\ lastEvent' = "setup"
  /\ UNCHANGED <<intervalRef, activeTimers, timerIds, rafPending, tickPc,
                 removedCount, rp, ri>>

\* after await E.init(): the flag, the render callback, makeFloor(), and
\* the keypress listener
SceneSetup ==
  /\ pc = "inited"
  /\ tickPc = "idle"
  /\ LET r == makeFloor([E EXCEPT !.renderCallback = TRUE])
     IN /\ E' = r.E
        /\ ret' = r.ret
  /\ floorIsShowing' = TRUE
  /\ pc' = "running"
  /\ lastEvent' = "setup"
  /\ UNCHANGED <<intervalRef, activeTimers, timerIds, rafPending, tickPc,
                 removedCount, rp, ri>>

\* a key or timer callback runs only between frames, after the listener
\* is installed
Ready == pc = "running" /\ tickPc = "idle"

\* room for one more spawned object within the bounds
CanSpawn == E.created < MaxCreated /\ Live(E) < MaxLive

\* a handler that creates an object: r is the create call's result
Spawned(r, event) ==
  /\ E' = r.E
  /\ ret' = r.ret
  /\ lastEvent' = event
  /\ UNCHANGED <<floorIsShowing, intervalRef, activeTimers, timerIds,
                 rafPending, pc, tickPc, removedCount, rp, ri>>

KeyS ==
  /\ Ready /\ CanSpawn
  /\ \E d \in EventDraws :
       Spawned(spawnSphere(E, generateRandomObjectParams(d)), "KeyS")

KeyB ==
  /\ Ready /\ CanSpawn
  /\ \E d \in EventDraws :
       Spawned(spawnBox(E, generateRandomObjectParams(d)), "KeyB")

KeyC ==
  /\ Ready /\ CanSpawn
  /\ \E d \in EventDraws :
       Spawned(spawnCapsule(E, generateRandomObjectParams(d)), "KeyC")

Space ==
  /\ Ready /\ CanSpawn
  /\ \E d \in EventDraws, k \in 0..(RandDen - 1) :
       Spawned(generateRandomObject(E, generateRandomObjectParams(d), k),
               "Space")

\* variant of the R handler: each matching element is spliced out of
\* E.rigidBodies while the forEach walks on to the next index
KeyR_splice ==
  /\ Ready
  /\ LET RECURSIVE splice(_, _, _)
         splice(e, i, n) ==
           IF i > Len(e.rigidBodies) THEN [E |-> e, n |-> n]
           ELSE LET rigidBody == e.rigidBodies[i] IN
                IF rigidBody.name # "floor"
                THEN splice(
                       [e EXCEPT
                          !.scene = sceneRemove(@, rigidBody.id),
                          !.physicsUniverse = removeCollisionObject(@,
                                     rigidBody.userData.physicsBody.eB),
                          !.rigidBodies = SubSeq(@, 1, i - 1) \o
                                          SubSeq(@, i + 1, Len(@))],
                       i + 1, n + 1)
                ELSE splice(e, i + 1, n)
         r == splice(E, 1, 0)
     IN /\ E' = r.E
        /\ removedCount' = removedCount + r.n
  /\ lastEvent' = "KeyR"
  /\ UNCHANGED <<floorIsShowing, intervalRef, activeTimers, timerIds,
                 rafPending, pc, tickPc, ret, rp, ri>>

KeyR ==
  /\ Ready
  /\ LET r == keyR(E)
     IN /\ E' = r.E
        /\ removedCount' = removedCount + r.n
  /\ lastEvent' = "KeyR"
  /\ UNCHANGED <<floorIsShowing, intervalRef, activeTimers, timerIds,
                 rafPending, pc, tickPc, ret, rp, ri>>

KeyF ==
  /\ Ready
  /\ floorIsShowing \/ E.created + 5 <= MaxCreated
  /\ LET r == keyF(E, floorIsShowing)
     IN /\ E' = r.E
        /\ floorIsShowing' = r.floorIsShowing
        /\ removedCount' = removedCount + r.n
        /\ ret' = IF floorIsShowing THEN ret ELSE lastPushed(r.E)
  /\ lastEvent' = "KeyF"
  /\ UNCHANGED <<intervalRef, activeTimers, timerIds,
                 rafPending, pc, tickPc, rp, ri>>

\* the G handler that forgets the timer without clearing it
KeyG_noClear ==
  /\ pc = "running" /\ tickPc = "idle"
  /\ IF intervalRef # undefined
     THEN /\ activeTimers' = activeTimers
          /\ intervalRef' = undefined
          /\ timerIds' = timerIds
     ELSE /\ timerIds < MaxTimers
          /\ timerIds' = timerIds + 1
          /\ activeTimers' = activeTimers \cup {timerIds + 1}
          /\ intervalRef' = timerIds + 1
  /\ lastEvent' = "KeyG"
  /\ UNCHANGED <<E, floorIsShowing, rafPending, pc, tickPc, ret,
                 removedCount, rp, ri>>

\* case "KeyG": clearInterval / setInterval
KeyG ==
  /\ Ready
  /\ IF intervalRef # undefined
     THEN /\ activeTimers' = activeTimers \ {intervalRef}
          /\ intervalRef' = undefined
          /\ timerIds' = timerIds
     ELSE /\ timerIds < MaxTimers
          /\ timerIds' = timerIds + 1
          /\ activeTimers' = activeTimers \cup {timerIds + 1}
          /\ intervalRef' = timerIds + 1
  /\ lastEvent' = "KeyG"
  /\ UNCHANGED <<E, floorIsShowing, rafPending, pc, tickPc, ret,
                 removedCount, rp, ri>>

\* a key whose code matches no case of the switch
KeyOther ==
  /\ Ready
  /\ lastEvent' = "other"
  /\ UNCHANGED <<E, floorIsShowing, intervalRef, activeTimers, timerIds,
                 rafPending, pc, tickPc, ret, removedCount, rp, ri>>

\* the setInterval callback of an active timer
TimerFire ==
  /\ Ready /\ CanSpawn
  /\ activeTimers # {}
  /\ \E d \in EventDraws, k \in 0..(RandDen - 1) :
       Spawned(generateRandomObject(E, generateRandomObjectParams(d), k),
               "timer")

Next ==
  \/ EngineInit
  \/ FrameCallback
  \/ StepPhysics
  \/ SyncStep
  \/ RenderStep
  \/ CallbackStep
  \/ Schedule
  \/ SceneSetup
  \/ KeyS
  \/ KeyB
  \/ KeyC
  \/ Space
  \/ KeyR
  \/ KeyF
  \/ KeyG
  \/ KeyOther
  \/ TimerFire

Spec == Init /\ [][Next]_vars

\* ------------------------------------- generateRandomObjectParams alone
\* one call of generateRandomObjectParams with any draw sequence
GenerateParams ==
  /\ rp = NoParams
  /\ ri = NoCall
  /\ \E d \in AllDraws :
       rp' = [draws |-> d, params |-> generateRandomObjectParams(d)]
  /\ UNCHANGED <<E, floorIsShowing, intervalRef, activeTimers, timerIds,
                 rafPending, pc, tickPc, ret, removedCount,
                 lastEvent, ri>>

\* one call randomInt(max, min) with any draw; min omitted is min = 0
CallRandomInt ==
  /\ rp = NoParams
  /\ ri = NoCall
  /\ \E max \in (-IntBound)..IntBound, min \in (-IntBound)..IntBound,
        k \in 0..(RandDen - 1) :
       /\ min < max
       /\ ri' = [max |-> max, min |-> min, k |-> k,
                 result |-> randomInt(max, min, k)]
  /\ UNCHANGED <<E, floorIsShowing, intervalRef, activeTimers, timerIds,
                 rafPending, pc, tickPc, ret, removedCount,
                 lastEvent, rp>>

ParamNext == GenerateParams \/ CallRandomInt

ParamSpec == Init /\ [][ParamNext]_vars

\* --------------------------------------- updatePhysics over its inputs
\* the engine after the script's set-up and n random objects, of any kinds
RECURSIVE spawnedEngines(_)
spawnedEngines(n) ==
  IF n = 0
  THEN { makeFloor([NewEngine EXCEPT !.graphicsReady = TRUE,
                                     !.physicsReady = TRUE,
                                     !.renderCallback = TRUE]).E }
  ELSE LET S == spawnedEngines(n - 1)
       IN S \cup { generateRandomObject(e, generateRandomObjectParams(d),
                                        k).E :
                     e \in S, d \in EventDraws, k \in 0..(RandDen - 1) }

\* getMotionState() returns nothing for the bodies of the meshes in ids
noMotionState(e, ids) ==
  [e EXCEPT !.rigidBodies =
     [i \in 1..Len(e.rigidBodies) |->
        IF e.rigidBodies[i].id \in ids
        THEN [e.rigidBodies[i] EXCEPT
                !.userData.physicsBody.motionState = FALSE]
        ELSE e.rigidBodies[i]]]

\* between two frames of the running loop: a registry the script has built
\* and a frame has synced, in which any of the bodies has no motion state
SyncInit ==
  /\ \E e \in spawnedEngines(MaxLive) :
       \E ids \in SUBSET { e.rigidBodies[i].id : i \in 1..Len(e.rigidBodies) } :
          E = noMotionState(syncAll(e), ids)
  /\ floorIsShowing = TRUE
  /\ intervalRef = undefined
  /\ activeTimers = {}
  /\ timerIds = 0
  /\ rafPending = 1
  /\ pc = "running"
  /\ tickPc = "idle"
  /\ ret = undefined
  /\ removedCount = 0
  /\ lastEvent = "setup"
  /\ rp = NoParams
  /\ ri = NoCall

\* the frames of the render loop
SyncNext ==
  \/ FrameCallback
  \/ StepPhysics
  \/ SyncStep
  \/ RenderStep
  \/ CallbackStep
  \/ Schedule

SyncSpec == SyncInit /\ [][SyncNext]_vars

\* ======================================================== properties
\* ids of the meshes in the registry
MeshIds(e) == { e.rigidBodies[i].id : i \in 1..Len(e.rigidBodies) }

\* pointers of the bodies attached to the meshes in the registry
BodyPtrs(e) ==
  { e.rigidBodies[i].userData.physicsBody.eB : i \in 1..Len(e.rigidBodies) }

\* the registry's meshes with a given tag test, in registry order
FloorMeshes(e) == SelectSeq(e.rigidBodies, LAMBDA m : m.name = "floor")
NonFloorMeshes(e) == SelectSeq(e.rigidBodies, LAMBDA m : m.name # "floor")

\* what a mesh is made of, apart from its identity and its visual transform
Composition(m) ==
  [ name |-> m.name, geometry |-> m.geometry, color |-> m.color,
    mass |-> m.userData.physicsBody.mass,
    origin |-> m.userData.physicsBody.origin,
    rotation |-> m.userData.physicsBody.rotation ]

FloorComposition(e) ==
  [ i \in 1..Len(FloorMeshes(e)) |-> Composition(FloorMeshes(e)[i]) ]

\* some dynamic body of the registry has been moved by a simulation step
SomeBodyMoved ==
  \E i \in 1..Len(E.rigidBodies) :
     /\ E.rigidBodies[i].userData.physicsBody.mass > 0
     /\ E.rigidBodies[i].userData.physicsBody.origin[2] \in SimHeights

\* the step is a run of the callback named ev: only that callback sets
\* lastEvent to ev, and the steps of a frame keep it at "frame" or "init"
Ran(ev) == lastEvent' = ev /\ vars' # vars

\* the events that create one object
SpawnEvents == {"KeyS", "KeyB", "KeyC", "Space", "timer"}

\* C1: in every reachable state the registry, the render scene and the
\* physics world hold the same objects: a mesh is in rigidBodies iff it is
\* in the scene iff its body is registered in the world, and no mesh is in
\* the registry twice.
C1_MembershipsAgree ==
  /\ E.scene = MeshIds(E)
  /\ E.physicsUniverse = BodyPtrs(E)
  /\ Cardinality(MeshIds(E)) = Len(E.rigidBodies)

\* C1 witness: both R and F have removed objects and objects remain
C1_Witness ==
  /\ lastEvent = "KeyF"
  /\ ~floorIsShowing
  /\ removedCount >= 6
  /\ Live(E) >= 1

\* C2: a press of R leaves the number of floor-tagged objects unchanged and
\* leaves no object with another tag in the registry.
C2_ResetKeepsFloor ==
  [][Ran("KeyR") => (Floors(E') = Floors(E) /\ Live(E') = 0)]_vars

\* C2 witness: R has just removed objects while auto-spawn is on and the
\* floor is present
C2_Witness ==
  /\ lastEvent = "KeyR"
  /\ removedCount >= 2
  /\ Floors(E) = 5
  /\ Live(E) = 0
  /\ intervalRef # undefined

C4_Accounting ==
  /\ Len(E.rigidBodies) = E.created - removedCount
  /\ Cardinality(MeshIds(E)) = Len(E.rigidBodies)

\* C4 witness: floor panels, key spawns and timer spawns were created and
\* objects were removed
C4_Witness ==
  /\ E.created >= 7
  /\ removedCount >= 1
  /\ lastEvent = "timer"
  /\ Len(E.rigidBodies) >= 6

\* C5: right after the sync step of a tick, where the render call is made,
\* every registry object's visual position and quaternion equal the
\* transform of its physics body.
C5_SyncedAtRender ==
  tickPc = "synced" =>
    \A i \in 1..Len(E.rigidBodies) :
       /\ E.rigidBodies[i].position =
            E.rigidBodies[i].userData.physicsBody.origin
       /\ E.rigidBodies[i].quaternion =
            E.rigidBodies[i].userData.physicsBody.rotation

\* C5 witness: a sync step has run over floor panels and dynamic objects,
\* one of them moved by the simulation
C5_Witness ==
  /\ tickPc = "synced"
  /\ Live(E) >= 2
  /\ Floors(E) = 5
  /\ SomeBodyMoved

\* C6: G alternately starts and stops one repeating timer; a timer spawn
\* happens only while auto-spawn is on; at most one timer is active.
C6_AutoSpawnToggle ==
  [][ /\ Ran("KeyG") =>
           /\ (intervalRef = undefined) # (intervalRef' = undefined)
           /\ activeTimers' = IF intervalRef = undefined
                              THEN {intervalRef'} ELSE {}
      /\ Ran("timer") => intervalRef # undefined
      /\ Cardinality(activeTimers') <= 1 ]_vars

\* C6 witness: a timer spawn after auto-spawn was turned on, off and on
C6_Witness ==
  /\ lastEvent = "timer"
  /\ timerIds = 2
  /\ intervalRef = 2

\* exactly one object with a tag in tags is appended; the rest, the floor
\* flag and the timer state stay
AppendsOne(tags) ==
  /\ Len(E'.rigidBodies) = Len(E.rigidBodies) + 1
  /\ SubSeq(E'.rigidBodies, 1, Len(E.rigidBodies)) = E.rigidBodies
  /\ E'.rigidBodies[Len(E'.rigidBodies)].name \in tags
  /\ floorIsShowing' = floorIsShowing
  /\ intervalRef' = intervalRef
  /\ activeTimers' = activeTimers

\* C7: S, B and C append one sphere, box and capsule; Space and a timer
\* firing append one object tagged box, capsule or sphere; nothing else in
\* the registry, the floor flag or the timer state changes.
C7_SpawnAppendsOne ==
  [][ /\ Ran("KeyS") => AppendsOne({"sphere"})
      /\ Ran("KeyB") => AppendsOne({"box"})
      /\ Ran("KeyC") => AppendsOne({"capsule"})
      /\ (Ran("Space") \/ Ran("timer")) =>
           AppendsOne({"box", "capsule", "sphere"}) ]_vars

\* C7 witness: Space or the timer has appended a box behind another object
C7_Witness ==
  /\ lastEvent \in {"Space", "timer"}
  /\ Live(E) = 2
  /\ E.rigidBodies[Len(E.rigidBodies)].name = "box"

\* C8: every spawn returns a handle to the object it appended to the
\* registry.
C8_SpawnReturnsHandle ==
  lastEvent \in SpawnEvents => ret = lastPushed(E)

\* the five floor transforms makeFloor creates
CreatedFloor == FloorComposition(makeFloor(NewEngine).E)

\* the mass generateRandomObjectParams yields is positive whatever the two
\* draws it depends on (the scale draw and the mass draw)
SpawnMassPositive ==
  \A k2, k7 \in 0..(RandDen - 1) :
     generateRandomObjectParams(
        [Draws(0) EXCEPT ![2] = k2, ![7] = k7]).randomMass > 0

\* C9: an object has mass 0 exactly when it is tagged 'floor', spawned
\* objects have positive mass, and the bodies of mass 0 still have the
\* transforms they were created with.
C9_StaticFloor ==
  /\ SpawnMassPositive
  /\ \A i \in 1..Len(E.rigidBodies) :
        LET m == E.rigidBodies[i]
        IN /\ (m.name = "floor") <=> (m.userData.physicsBody.mass = 0)
           /\ m.name # "floor" => m.userData.physicsBody.mass > 0
  /\ \A j \in 1..Len(FloorMeshes(E)) :
        /\ j <= 5
        /\ FloorComposition(E)[j].origin = CreatedFloor[j].origin
        /\ FloorComposition(E)[j].rotation = CreatedFloor[j].rotation

\* C9 witness: simulation steps have moved a spawned object next to a floor
\* that was removed and rebuilt
C9_Witness ==
  /\ Floors(E) = 5
  /\ removedCount >= 5
  /\ SomeBodyMoved

\* C10: generateRandomObjectParams yields x and z in [-5, 5) and y in
\* [20, 45), and each range is reached over its whole extent: the lowest
\* draw gives the lower end and the highest draw a value within one draw
\* step of the upper end.
C10_PositionRanges ==
  rp # NoParams =>
    LET p == rp.params
        d == rp.draws
        Covers(v, k, lo, hi) ==
          /\ lo <= v /\ v < hi
          /\ k = 0 => v = lo
          /\ k = RandDen - 1 => v >= hi - ((hi - lo) \div RandDen)
    IN /\ Covers(p.randomX, d[4], -5 * U, 5 * U)
       /\ Covers(p.randomY, d[5], 20 * U, 45 * U)
       /\ Covers(p.randomZ, d[6], -5 * U, 5 * U)

\* C11: generateRandomObjectParams yields a scale in [0.75, 1.75) and a
\* mass in [5, 10.75); no spawned object has mass 10.75 or more.
C11_ScaleMassRanges ==
  rp # NoParams =>
    /\ (3 * U) \div 4 <= rp.params.randomScale
    /\ rp.params.randomScale < (7 * U) \div 4
    /\ 5 * U <= rp.params.randomMass
    /\ rp.params.randomMass < (43 * U) \div 4

\* C12: for integers min < max, randomInt(max, min) returns an integer r
\* with min <= r < max (with min omitted, 0 <= r < max).
C12_RandomIntRange ==
  ri # NoCall => (ri.min <= ri.result /\ ri.result < ri.max)

\* the part of the program state that only key, timer and top-level script
\* code writes
scriptState ==
  <<floorIsShowing, intervalRef, activeTimers, timerIds, removedCount, ret,
    lastEvent, pc>>

\* C13: within every tick the steps occur in this order, each exactly once:
\* advance the physics world, sync every registry object, render, invoke the
\* post-frame callback if one is set (skip it if none is set), schedule the
\* next tick; no key or timer callback runs between two steps of one tick.
C13_TickOrder ==
  [][ /\ tickPc = "idle" => tickPc' \in {"idle", "entered"}
      /\ tickPc = "entered" =>
           /\ tickPc' = "stepped"
           /\ E' \in stepSimulation(E)
      /\ tickPc = "stepped" =>
           /\ tickPc' = "synced"
           /\ E' = syncAll(E)
      /\ tickPc = "synced" =>
           /\ tickPc' = "rendered"
           /\ E' = E
      /\ tickPc = "rendered" =>
           /\ tickPc' = IF E.renderCallback THEN "called" ELSE "skipped"
           /\ E' = E
      /\ tickPc \in {"called", "skipped"} =>
           /\ tickPc' = "idle"
           /\ rafPending' = rafPending + 1
           /\ E' = E
      /\ tickPc \in {"entered", "stepped", "synced", "rendered"} =>
           /\ rafPending' = rafPending
           /\ scriptState' = scriptState
      /\ tickPc \in {"called", "skipped"} =>
           /\ lastEvent' = lastEvent
           /\ <<floorIsShowing, intervalRef, activeTimers, timerIds,
                removedCount, ret>>' =
              <<floorIsShowing, intervalRef, activeTimers, timerIds,
                removedCount, ret>>
    ]_vars

\* a tick that has invoked the callback while objects exist and the spawn
\* timer is armed
C13_Witness ==
  /\ tickPc = "called"
  /\ Live(E) >= 2
  /\ intervalRef # undefined
  /\ lastEvent = "frame"

\* C14: the loop is started exactly once, and no tick runs before the
\* graphics and physics engines are initialised; once started, every tick
\* schedules exactly one next tick, so that between ticks exactly one tick is
\* pending and during a tick none is: the loop never stops and never runs
\* as two chains.
C14_OneChain ==
  /\ pc = "new" => (tickPc = "idle" /\ rafPending = 0)
  /\ pc # "new" => rafPending + (IF tickPc = "idle" THEN 0 ELSE 1) = 1
  /\ tickPc # "idle" => (E.graphicsReady /\ E.physicsReady)

\* between two ticks, after a tick has completed and keys have spawned
\* objects and started a timer
C14_Witness ==
  /\ pc = "running"
  /\ tickPc = "idle"
  /\ rafPending = 1
  /\ lastEvent = "frame"
  /\ timerIds >= 1
  /\ E.created > 5

\* the body of the i-th registry object has a motion state
hasMotionState(e, i) == e.rigidBodies[i].userData.physicsBody.motionState

\* C15: if the physics body of a registry object has no motion state, the
\* sync leaves that object's visual transform as it was, every other object
\* of the registry gets its body's transform in the same tick, and the tick
\* goes on to render, invoke the callback and schedule the next tick.
C15_SkipWithoutMotionState ==
  [][ /\ tickPc = "stepped" =>
           /\ tickPc' = "synced"
           /\ Len(E'.rigidBodies) = Len(E.rigidBodies)
           /\ \A i \in 1..Len(E.rigidBodies) :
                LET m == E.rigidBodies[i]
                    b == m.userData.physicsBody
                IN IF hasMotionState(E, i)
                   THEN E'.rigidBodies[i] =
                          [m EXCEPT !.position = b.origin,
                                    !.quaternion = b.rotation]
                   ELSE E'.rigidBodies[i] = m
      /\ tickPc = "synced" => tickPc' = "rendered"
      /\ tickPc = "rendered" =>
           tickPc' = IF E.renderCallback THEN "called" ELSE "skipped"
      /\ tickPc \in {"called", "skipped"} =>
           (tickPc' = "idle" /\ rafPending' = rafPending + 1)
    ]_vars

\* a tick has reached the callback with an object whose body moved but has no
\* motion state, so that its mesh stayed behind, followed in the registry by
\* an object that was moved and synced
C15_Witness ==
  /\ tickPc = "called"
  /\ \E i, j \in 1..Len(E.rigidBodies) :
       /\ i < j
       /\ ~hasMotionState(E, i)
       /\ E.rigidBodies[i].userData.physicsBody.origin[2] \in SimHeights
       /\ E.rigidBodies[i].position #
            E.rigidBodies[i].userData.physicsBody.origin
       /\ hasMotionState(E, j)
       /\ E.rigidBodies[j].userData.physicsBody.origin[2] \in SimHeights
       /\ E.rigidBodies[j].position =
            E.rigidBodies[j].userData.physicsBody.origin

\* C16: once the script has set the scene up, the floor flag agrees with the
\* registry in every state: the flag is true exactly when the registry holds
\* 5 floor panels and false exactly when it holds no object tagged 'floor';
\* the number of floor-tagged objects is never anything but 0 or 5.
C16_FlagAgrees ==
  /\ Floors(E) \in {0, 5}
  /\ pc = "running" => (floorIsShowing <=> Floors(E) = 5)
  /\ pc = "running" => (~floorIsShowing <=> Floors(E) = 0)

\* the timer has spawned an object while the floor is hidden
C16_Witness ==
  /\ lastEvent = "timer"
  /\ ~floorIsShowing
  /\ Floors(E) = 0
  /\ Live(E) >= 1
  /\ removedCount >= 5

\* what a removal of the elements whose floor tag test equals floorWanted
\* must do to the registry, the scene, the world and the removal count
RemovesExactly(floorWanted) ==
  LET Match(m) == (m.name = "floor") = floorWanted
      gone == { i \in 1..Len(E.rigidBodies) : Match(E.rigidBodies[i]) }
  IN /\ E'.rigidBodies = SelectSeq(E.rigidBodies, LAMBDA m : ~Match(m))
     /\ E'.scene = E.scene \ { E.rigidBodies[i].id : i \in gone }
     /\ E'.physicsUniverse =
          E.physicsUniverse \
            { E.rigidBodies[i].userData.physicsBody.eB : i \in gone }
     /\ removedCount' = removedCount + Cardinality(gone)

\* C17: removal by R or by F visits every registry element exactly once and
\* skips none, also where matching elements are adjacent or at the ends of
\* the registry; the elements that are kept stay in their relative order
\* with their mesh and body unchanged.
C17_RemovalVisitsAll ==
  [][ /\ Ran("KeyR") => RemovesExactly(FALSE)
      /\ (Ran("KeyF") /\ floorIsShowing) => RemovesExactly(TRUE)
    ]_vars

\* F has removed the five adjacent panels at the end of the registry and
\* kept the object in front of them
C17_Witness ==
  /\ lastEvent = "KeyF"
  /\ ~floorIsShowing
  /\ removedCount >= 10
  /\ Len(E.rigidBodies) = 1
  /\ E.rigidBodies[1].id = 6

\* the bodies of the objects that are in the registry before and after the
\* step are the same
BodiesKept ==
  \A i \in 1..Len(E.rigidBodies), j \in 1..Len(E'.rigidBodies) :
     E.rigidBodies[i].id = E'.rigidBodies[j].id =>
       E'.rigidBodies[j].userData.physicsBody =
         E.rigidBodies[i].userData.physicsBody

\* C18: the sync step writes visual transforms only: it changes no body's
\* transform, adds nothing to and removes nothing from the scene and the
\* physics world, and leaves the registry's contents and order as they
\* were; and no step other than the physics step changes the body of an
\* object once it is created.
C18_SyncWritesVisualOnly ==
  [][ /\ tickPc = "stepped" =>
           /\ E'.physicsUniverse = E.physicsUniverse
           /\ E'.scene = E.scene
           /\ E'.created = E.created
           /\ Len(E'.rigidBodies) = Len(E.rigidBodies)
           /\ \A i \in 1..Len(E.rigidBodies) :
                [E'.rigidBodies[i] EXCEPT
                   !.position = E.rigidBodies[i].position,
                   !.quaternion = E.rigidBodies[i].quaternion]
                  = E.rigidBodies[i]
      /\ tickPc # "entered" => BodiesKept
    ]_vars

\* a sync has run with the floor hidden, over an object whose body the
\* physics step has moved
C18_Witness ==
  /\ tickPc = "synced"
  /\ ~floorIsShowing
  /\ Live(E) >= 1
  /\ \E i \in 1..Len(E.rigidBodies) :
       /\ E.rigidBodies[i].userData.physicsBody.origin[2] \in SimHeights
       /\ E.rigidBodies[i].position =
            E.rigidBodies[i].userData.physicsBody.origin

\* selectors that match no case of generateRandomObject's switch
otherSelectors == ((-IntBound)..IntBound) \ {0, 1, 2}

\* C19: an unrecognised kind is a silent no-op: a key press whose code
\* matches no case, and a random-object request whose selector is outside
\* 0..2, create no object and leave the registry, the scene, the physics
\* world, the floor flag and the timer as they were.
C19_UnknownKindNoOp ==
  [][ /\ Ran("other") =>
           /\ E' = E
           /\ UNCHANGED <<floorIsShowing, intervalRef, activeTimers,
                          timerIds, rafPending, pc, tickPc, ret,
                          removedCount>>
      /\ \A w \in otherSelectors, d \in EventDraws :
           randomObjectCase(E, generateRandomObjectParams(d), w)
             = [E |-> E, ret |-> undefined]
    ]_vars

\* a key without a case has been pressed while an object exists, the floor
\* is hidden and the spawn timer is armed
C19_Witness ==
  /\ lastEvent = "other"
  /\ Live(E) >= 1
  /\ ~floorIsShowing
  /\ intervalRef # undefined

====
